---- MODULE Spec2Model ----
(***************************************************************************)
(* The entry/asset write workflows of labnotez (src/app/routes.py):        *)
(* admin_new, admin_edit and admin_delete, over the two tables entries and *)
(* assets (one sqlite connection and transaction per request) and the      *)
(* upload directory.  Every handler is a sequence of steps; req[p].pc is   *)
(* the position of request p in its handler.                               *)
(***************************************************************************)
EXTENDS Integers, Sequences, FiniteSets, TLC

\* ------------------------------------------------------------------ bounds
\* live rows of table entries
MaxEntries == 2
\* live rows of table assets
MaxAssets == 3
\* length of a submitted list of photo files (photos / new_photos)
MaxPhotos == 2
\* length of a submitted existing_photo_id list
MaxExisting == 2
\* last value of the wall clock (seconds)
MaxClock == 1
\* requests served in one run
MaxRequests == 2
\* rows of table entries in the stores that are listed page by page
MaxTotal == 45
\* last of the consecutive page numbers a listing request names
MaxPage == 4
\* calls of _delete_image in a row on one upload directory
MaxCalls == 3

\* requests that run at the same time; the sequential specification uses one
Procs == {1, 2}
SeqProcs == {1}

\* ------------------------------------------------------- form input values
Today == "2024-06-01"
RawDates == {"", "2024-03-05", "2024-3-5", "03/05/2024"}
FileNames == {"", "my photo.JPG", "notes.txt", ".."}
RawCaptions == {"", " bench "}
RawTitles == {" run 7 "}
\* the caption list is shorter than the file list at this index
NoCaption == "<short>"

ALLOWED_IMAGE_EXTENSIONS == {"jpg", "jpeg", "png", "webp", "gif", "heic", "heif"}

\* -------------------------------------------------------- pure conversions
\* str.strip()
Strip(s) == CASE s = " bench " -> "bench"
              [] s = " run 7 " -> "run 7"
              [] OTHER -> s

\* datetime.strptime(raw, "%Y-%m-%d"): %m and %d take one or two digits
StrptimeOk(raw) == raw \in {"2024-03-05", "2024-3-5", "2024-06-01"}

Strptime(raw) == CASE raw \in {"2024-03-05", "2024-3-5"} -> [year |-> 2024, month |-> 3, day |-> 5]
                   [] raw = "2024-06-01" -> [year |-> 2024, month |-> 6, day |-> 1]

Digit(n) == <<"0", "1", "2", "3", "4", "5", "6", "7", "8", "9">>[n + 1]

\* f"{n:02d}" / f"{n:04d}" and str(n), for the numbers that occur
RECURSIVE IntToStr(_)
IntToStr(n) == IF n < 10 THEN Digit(n) ELSE IntToStr(n \div 10) \o Digit(n % 10)

Pad2(n) == IF n < 10 THEN "0" \o IntToStr(n) ELSE IntToStr(n)

Pad4(n) == IF n < 10 THEN "000" \o IntToStr(n)
           ELSE IF n < 100 THEN "00" \o IntToStr(n)
           ELSE IF n < 1000 THEN "0" \o IntToStr(n)
           ELSE IntToStr(n)

\* date.isoformat()
IsoFormat(d) == Pad4(d.year) \o "-" \o Pad2(d.month) \o "-" \o Pad2(d.day)

\* _normalized_entry_date raises ValueError exactly when this is FALSE
NormalizedDateOk(raw) == raw = "" \/ StrptimeOk(raw)

NormalizedEntryDate(raw) == IF raw = "" THEN Today ELSE IsoFormat(Strptime(raw))

\* werkzeug secure_filename
SecureFilename(f) == CASE f = "my photo.JPG" -> "my_photo.JPG"
                       [] f = ".." -> ""
                       [] OTHER -> f

\* filename.rsplit(".", 1)[1]; "" when the name holds no "."
Extension(name) == CASE name = "my_photo.JPG" -> "JPG"
                     [] name = "notes.txt" -> "txt"
                     [] OTHER -> ""

HasDot(name) == name \in {"my_photo.JPG", "notes.txt"}

Lower(s) == CASE s = "JPG" -> "jpg"
              [] OTHER -> s

AllowedImage(name) == HasDot(name) /\ Lower(Extension(name)) \in ALLOWED_IMAGE_EXTENSIONS

\* _save_uploaded_image raises ValueError exactly when this is FALSE
SaveAccepts(filename) == /\ SecureFilename(filename) # ""
                         /\ AllowedImage(SecureFilename(filename))

\* the relative path _save_uploaded_image returns: YYYY/MM/DD/<role>-<token><ext>
SavedPath(filename, entry_date, role, token) ==
    [dir   |-> Pad4(Strptime(entry_date).year) \o "/" \o Pad2(Strptime(entry_date).month)
                  \o "/" \o Pad2(Strptime(entry_date).day),
     role  |-> role,
     token |-> token,
     ext   |-> "." \o Lower(Extension(SecureFilename(filename)))]

\* ------------------------------------------------------------------ state
VARIABLES
    db,     \* the committed database: [entries, assets], two sets of rows
    disk,   \* the relative paths of the files under UPLOAD_DIR
    clock,  \* the wall clock, in seconds
    served, \* the number of requests that have arrived
    forms,  \* the values the clients of this run put into their forms
    req     \* req[p]: the handler invocation p runs, its locals and position

vars == <<db, disk, clock, served, forms, req>>

\* clients that submit any of the input values, in lists up to the bounds
AnyForm == [dates |-> RawDates, titles |-> RawTitles, files |-> FileNames,
            captions |-> RawCaptions, photos |-> MaxPhotos, existing |-> MaxExisting]

\* clients that submit a well-formed date, no captions, and at most one
\* existing photo id and one new photo file: no file, an image, or a text file
PlainForm == [dates |-> {"2024-03-05"}, titles |-> RawTitles,
              files |-> {"", "my photo.JPG", "notes.txt"},
              captions |-> {""}, photos |-> 1, existing |-> 1]

EmptyDb == [entries |-> {}, assets |-> {}]

EmptyPath == [dir |-> "", role |-> "", token |-> 0, ext |-> ""]

NoDict == [s \in {} |-> EmptyPath]

\* A request's form is an input of the handler.  Each field is drawn at the
\* step that first reads it, and a list field element by element as the loop
\* reaches it: the handlers only read the form, so these are exactly the runs
\* in which the whole form is fixed when the request arrives.
Idle == [pc |-> "idle", op |-> "none", entry_id |-> 0, entry_date |-> "",
         title |-> "", timestamp |-> 0, tx |-> EmptyDb,
         saved_files |-> <<>>, files_to_remove_after_commit |-> <<>>,
         existing_notebook |-> {}, existing_photo_paths |-> NoDict,
         delete_photo_ids |-> {}, asset_rows |-> <<>>,
         sort_index |-> 0, index |-> 0,
         error |-> "", outcome |-> "", flashed |-> <<>>, committed |-> FALSE,
         date_ok |-> TRUE, notebook_submitted |-> FALSE,
         named |-> 0, presented |-> <<>>, pre |-> [db |-> EmptyDb, disk |-> {}],
         page |-> 0, per_page |-> 0, entries |-> <<>>, total_pages |-> 0, rows |-> <<>>,
         calls |-> <<>>, raised |-> FALSE, ignored |-> {}]

Init == /\ db = EmptyDb
        /\ disk = {}
        /\ clock = 0
        /\ served = 0
        /\ forms = AnyForm
        /\ req = [p \in Procs |-> Idle]

\* ---------------------------------------------------------------- helpers
Min(S) == CHOOSE m \in S : \A n \in S : m <= n

SeqRange(s) == {s[i] : i \in 1..Len(s)}

\* The id the store gives an inserted row.  Ids are opaque: the handlers only
\* compare them for equality, and a form may name any id, so the smallest id
\* that no row of the table carries, committed or in a running transaction,
\* stands for the fresh rowid.
FreshId(used) == Min({n \in 1..(Cardinality(used) + 1) : n \notin used})

EntryIdsInUse == {e.id : e \in db.entries} \cup UNION {{e.id : e \in req[p].tx.entries} : p \in Procs}

AssetIdsInUse == {a.id : a \in db.assets} \cup UNION {{a.id : a \in req[p].tx.assets} : p \in Procs}

\* _utc_now_iso(): the clock may have advanced since it was last read
Now == {t \in clock..(clock + 1) : t <= MaxClock}

\* uuid4().hex: a token no path known anywhere carries
UsedTokens ==
    {f.token : f \in disk} \cup {a.file_path.token : a \in db.assets}
    \cup UNION {
        {f.token : f \in SeqRange(req[p].saved_files)}
        \cup {f.token : f \in SeqRange(req[p].files_to_remove_after_commit)}
        \cup {f.token : f \in SeqRange(req[p].asset_rows)}
        \cup {n.file_path.token : n \in req[p].existing_notebook}
        \cup {req[p].existing_photo_paths[s].token : s \in DOMAIN req[p].existing_photo_paths}
        \cup {a.file_path.token : a \in req[p].tx.assets}
        \cup {f.token : f \in req[p].pre.disk}
        \cup {a.file_path.token : a \in req[p].pre.db.assets}
        : p \in Procs}

Uuid4 == Min({n \in 1..(Cardinality(UsedTokens) + 1) : n \notin UsedTokens})

\* Path.unlink(): removes the file; FileNotFoundError when there is none
Unlink(path, files) == [files |-> files \ {path}, raised |-> path \notin files]

\* the delete without the test that the file exists
DeleteImageUnguarded(relative_path, files) ==
    IF relative_path = EmptyPath THEN [files |-> files, raised |-> FALSE]
    ELSE Unlink(relative_path, files)

\* _delete_image: the files it leaves, and whether it raised
DeleteImageOutcome(relative_path, files) ==
    IF relative_path = EmptyPath THEN [files |-> files, raised |-> FALSE]
    ELSE IF relative_path \in files THEN Unlink(relative_path, files)
    ELSE [files |-> files, raised |-> FALSE]

\* _delete_image
DeleteImage(relative_path, files) == DeleteImageOutcome(relative_path, files).files

\* the insert with the sort_index counted from one
InsertAssetFromOne(t, entry_id, kind, file_path, caption, sort_index, created_at) ==
    [t EXCEPT !.assets = t.assets \cup
        {[id |-> FreshId(AssetIdsInUse), entry_id |-> entry_id, kind |-> kind,
          file_path |-> file_path, caption |-> caption, sort_index |-> sort_index + 1,
          created_at |-> created_at]}]

\* INSERT INTO assets (entry_id, kind, file_path, caption, sort_index, created_at)
InsertAsset(t, entry_id, kind, file_path, caption, sort_index, created_at) ==
    [t EXCEPT !.assets = t.assets \cup
        {[id |-> FreshId(AssetIdsInUse), entry_id |-> entry_id, kind |-> kind,
          file_path |-> file_path, caption |-> caption, sort_index |-> sort_index,
          created_at |-> created_at]}]

\* INSERT INTO assets raises IntegrityError when no entry carries entry_id
\* (assets.entry_id REFERENCES entries(id), foreign_keys = ON)
ForeignKeyFails(t, entry_id) == entry_id \notin {e.id : e \in t.entries}

\* captions[index].strip() if index < len(captions) else ""
CaptionAt(c) == IF c = NoCaption THEN "" ELSE Strip(c)

\* a file that would add a row is submitted only while table assets has room
RoomForAsset(t) == Cardinality(t.assets) < MaxAssets

\* the rest of the request's record once the handler has returned
Returned(r, outcome, category) ==
    [r EXCEPT !.pc = "done", !.outcome = outcome, !.flashed = Append(r.flashed, category)]

\* ------------------------------------------------ the write transaction
\* A connection opens its transaction at its first INSERT, UPDATE or DELETE
\* and holds the store's write lock until it commits or rolls back.
HoldsTransaction(r) ==
    r.pc \in {"new_notebook", "photos", "commit", "rollback",
              "edit_notebook", "edit_existing", "edit_loop", "delete_commit"}

LockedByOther(p) == \E q \in Procs \ {p} : HoldsTransaction(req[q])

\* A first write statement waits while another connection holds the lock
\* (the step is taken once the lock is free: FALSE) or gives up after the
\* timeout of sqlite3.connect and raises "database is locked" (TRUE).
Busy(p) == IF LockedByOther(p) THEN {TRUE} ELSE {FALSE}

\* ------------------------------------------------------------- admin_new
\* POST /admin/new, up to the start of the try block
NewPost(p) ==
    /\ req[p].pc = "idle"
    /\ served < MaxRequests
    /\ served' = served + 1
    /\ Cardinality(db.entries) < MaxEntries
    /\ \E raw \in forms.dates, title \in forms.titles, t \in Now :
        /\ clock' = t
        /\ req' = [req EXCEPT ![p] =
              [Idle EXCEPT !.pc = "new_insert", !.op = "new",
                           !.date_ok = NormalizedDateOk(raw),
                           !.entry_date = IF NormalizedDateOk(raw)
                                          THEN NormalizedEntryDate(raw) ELSE Today,
                           !.flashed = IF NormalizedDateOk(raw) THEN <<>> ELSE <<"error">>,
                           !.title = Strip(title), !.timestamp = t,
                           !.pre = [db |-> db, disk |-> disk]]]
    /\ UNCHANGED <<db, disk, forms>>

\* INSERT INTO entries ...; entry_id = cursor.lastrowid.  The connection opens
\* its transaction at this first write.
NewInsertEntry(p) ==
    /\ req[p].pc = "new_insert"
    /\ \E busy \in Busy(p) :
       LET r == req[p]
           id == FreshId(EntryIdsInUse)
       IN req' = [req EXCEPT ![p] =
             IF busy
             THEN [r EXCEPT !.pc = "rollback", !.error = "Exception"]
             ELSE [r EXCEPT !.pc = "new_notebook", !.entry_id = id,
                       !.tx = [db EXCEPT !.entries = db.entries \cup
                                 {[id |-> id, entry_date |-> r.entry_date, title |-> r.title,
                                   created_at |-> r.timestamp, updated_at |-> r.timestamp]}]]]
    /\ UNCHANGED <<db, disk, clock, served, forms>>

\* if notebook_file is not None and notebook_file.filename: save it, insert its row
NewNotebook(p) ==
    /\ req[p].pc = "new_notebook"
    /\ \E f \in forms.files, c \in forms.captions, dbError \in BOOLEAN :
        LET r == req[p]
            path == SavedPath(f, r.entry_date, "notebook", Uuid4)
        IN IF f = ""
           THEN /\ req' = [req EXCEPT ![p] = [r EXCEPT !.pc = "photos"]]
                /\ UNCHANGED disk
           ELSE IF ~SaveAccepts(f)
           THEN /\ req' = [req EXCEPT ![p] =
                      [r EXCEPT !.pc = "rollback", !.error = "ValueError",
                                !.notebook_submitted = TRUE]]
                /\ UNCHANGED disk
           ELSE /\ RoomForAsset(r.tx)
                /\ disk' = disk \cup {path}
                /\ req' = [req EXCEPT ![p] =
                      IF dbError \/ ForeignKeyFails(r.tx, r.entry_id)
                      THEN [r EXCEPT !.pc = "rollback", !.error = "Exception",
                                     !.notebook_submitted = TRUE,
                                     !.saved_files = Append(r.saved_files, path)]
                      ELSE [r EXCEPT !.pc = "photos", !.notebook_submitted = TRUE,
                                     !.saved_files = Append(r.saved_files, path),
                                     !.tx = InsertAsset(r.tx, r.entry_id, "notebook_page",
                                                        path, Strip(c), 0, r.timestamp)]]
    /\ UNCHANGED <<db, clock, served, forms>>

\* ------------------------------------------------------ _store_new_photos
\* One pass of the loop over the submitted photo files, or its end.  The loop
\* starts at index 0 with sort_index = starting_sort_index.
StoreNewPhotos(p) ==
    /\ req[p].pc = "photos"
    /\ \/ /\ req' = [req EXCEPT ![p] = [req[p] EXCEPT !.pc = "commit"]]
          /\ UNCHANGED disk
       \/ /\ req[p].index < forms.photos
          /\ \E f \in forms.files, c \in forms.captions \cup {NoCaption}, dbError \in BOOLEAN :
              LET r == req[p]
                  path == SavedPath(f, r.entry_date, "photo", Uuid4)
              IN IF f = ""
                 THEN /\ req' = [req EXCEPT ![p] = [r EXCEPT !.index = r.index + 1]]
                      /\ UNCHANGED disk
                 ELSE IF ~SaveAccepts(f)
                 THEN /\ req' = [req EXCEPT ![p] =
                            [r EXCEPT !.pc = "rollback", !.error = "ValueError",
                                      !.named = r.named + 1]]
                      /\ UNCHANGED disk
                 ELSE /\ RoomForAsset(r.tx)
                      /\ disk' = disk \cup {path}
                      /\ req' = [req EXCEPT ![p] =
                            IF dbError \/ ForeignKeyFails(r.tx, r.entry_id)
                            THEN [r EXCEPT !.pc = "rollback", !.error = "Exception",
                                           !.named = r.named + 1,
                                           !.saved_files = Append(r.saved_files, path)]
                            ELSE [r EXCEPT !.index = r.index + 1, !.named = r.named + 1,
                                           !.saved_files = Append(r.saved_files, path),
                                           !.presented = Append(r.presented, FreshId(AssetIdsInUse)),
                                           !.sort_index = r.sort_index + 1,
                                           !.tx = InsertAsset(r.tx, r.entry_id, "photo", path,
                                                              CaptionAt(c), r.sort_index,
                                                              r.timestamp)]]
    /\ UNCHANGED <<db, clock, served, forms>>

\* ------------------------------------------------------------ admin_edit
\* the query that finds no notebook row
ExistingNotebookMissed(d, entry_id) == {{}}

\* SELECT id, file_path FROM assets WHERE entry_id = ? AND kind = 'notebook_page'
\* LIMIT 1: no row, or any one of the rows
ExistingNotebook(d, entry_id) ==
    LET rows == {a \in d.assets : a.entry_id = entry_id /\ a.kind = "notebook_page"}
    IN IF rows = {} THEN {{}}
       ELSE {{[id |-> a.id, file_path |-> a.file_path]} : a \in rows}

\* the dictionary of the assets of every entry, of either kind
ExistingPhotoPathsOfAll(d, entry_id) ==
    [s \in {IntToStr(a.id) : a \in d.assets} |->
        (CHOOSE a \in d.assets : IntToStr(a.id) = s).file_path]

\* {str(row["id"]): row["file_path"] for row in existing_photos}
ExistingPhotoPaths(d, entry_id) ==
    LET rows == {a \in d.assets : a.entry_id = entry_id /\ a.kind = "photo"}
    IN [s \in {IntToStr(a.id) : a \in rows} |->
           (CHOOSE a \in rows : IntToStr(a.id) = s).file_path]

\* int(raw_photo_id), for the keys of existing_photo_paths
ParseInt(s) == CHOOSE n \in 0..99 : IntToStr(n) = s

\* the lookup that finds a row for every id
NotFoundNever(d, entry_id) == FALSE

\* SELECT ... FROM entries WHERE id = ? finds no row: abort(404)
NotFound(d, entry_id) == entry_id \notin {e.id : e \in d.entries}

\* the ids a form can name: that of every row of the table, and one of no row
FormEntryIds == {e.id : e \in db.entries} \cup {0}

FormAssetIds == {IntToStr(a.id) : a \in db.assets} \cup {"0"}

\* a copy of admin_new's except clause: fall back to today and carry on
EditBadDateFallsBack(r) ==
    [r EXCEPT !.pc = "edit_update", !.entry_date = Today, !.flashed = <<"error">>]

\* except ValueError: flash("Entry date must be in YYYY-MM-DD format."); redirect
EditBadDate(r) == Returned(r, "bad_date", "error")

\* POST /admin/edit/<entry_id>, up to the start of the try block
EditPost(p) ==
    /\ req[p].pc = "idle"
    /\ served < MaxRequests
    /\ served' = served + 1
    /\ \E id \in FormEntryIds, raw \in forms.dates, title \in forms.titles, t \in Now :
        /\ clock' = t
        /\ \E nb \in ExistingNotebook(db, id) :
            req' = [req EXCEPT ![p] =
              LET r == [Idle EXCEPT !.op = "edit", !.entry_id = id,
                                    !.date_ok = NormalizedDateOk(raw),
                                    !.pre = [db |-> db, disk |-> disk]]
              IN IF NotFound(db, id)
                 THEN [r EXCEPT !.pc = "done", !.outcome = "404"]
                 ELSE IF ~NormalizedDateOk(raw)
                 THEN EditBadDate(r)
                 ELSE [r EXCEPT !.pc = "edit_update",
                                !.entry_date = NormalizedEntryDate(raw),
                                !.title = Strip(title), !.timestamp = t,
                                !.existing_notebook = nb,
                                !.existing_photo_paths = ExistingPhotoPaths(db, id)]]
    /\ UNCHANGED <<db, disk, forms>>

\* UPDATE entries SET entry_date, title, body_markdown, updated_at WHERE id = ?
EditUpdateEntry(p) ==
    /\ req[p].pc = "edit_update"
    /\ \E busy \in Busy(p) :
       LET r == req[p] IN
       req' = [req EXCEPT ![p] =
          IF busy
          THEN [r EXCEPT !.pc = "rollback", !.error = "Exception"]
          ELSE
          [r EXCEPT !.pc = "edit_notebook",
                    !.tx = [db EXCEPT !.entries =
                              {IF e.id = r.entry_id
                               THEN [e EXCEPT !.entry_date = r.entry_date, !.title = r.title,
                                              !.updated_at = r.timestamp]
                               ELSE e : e \in db.entries}]]]
    /\ UNCHANGED <<db, disk, clock, served, forms>>

\* the update that leaves file_path as it was
ReplaceNotebookRowKeepsPath(t, id, file_path, caption, created_at) ==
    [t EXCEPT !.assets = {IF a.id = id
                          THEN [a EXCEPT !.caption = caption, !.created_at = created_at]
                          ELSE a : a \in t.assets}]

\* UPDATE assets SET file_path = ?, caption = ?, created_at = ? WHERE id = ?
ReplaceNotebookRow(t, id, file_path, caption, created_at) ==
    [t EXCEPT !.assets = {IF a.id = id
                          THEN [a EXCEPT !.file_path = file_path, !.caption = caption,
                                         !.created_at = created_at]
                          ELSE a : a \in t.assets}]

\* the update that also clears file_path
SetCaptionClearsPath(t, id, caption) ==
    [t EXCEPT !.assets = {IF a.id = id THEN [a EXCEPT !.caption = caption,
                                                      !.file_path = EmptyPath]
                          ELSE a : a \in t.assets}]

\* UPDATE assets SET caption = ? WHERE id = ?
SetCaption(t, id, caption) ==
    [t EXCEPT !.assets = {IF a.id = id THEN [a EXCEPT !.caption = caption] ELSE a
                          : a \in t.assets}]

\* the notebook branch of admin_edit: replace, insert, or set the caption
EditNotebook(p) ==
    /\ req[p].pc = "edit_notebook"
    /\ \E f \in forms.files, c \in forms.captions, dbError \in BOOLEAN :
        LET r == req[p]
            path == SavedPath(f, r.entry_date, "notebook", Uuid4)
            old == CHOOSE n \in r.existing_notebook : TRUE
            next == [r EXCEPT !.pc = "edit_existing", !.index = 0, !.sort_index = 0]
        IN IF f = ""
           THEN /\ req' = [req EXCEPT ![p] =
                      IF r.existing_notebook # {}
                      THEN [next EXCEPT !.tx = SetCaption(r.tx, old.id, Strip(c))]
                      ELSE next]
                /\ UNCHANGED disk
           ELSE IF ~SaveAccepts(f)
           THEN /\ req' = [req EXCEPT ![p] =
                      [r EXCEPT !.pc = "rollback", !.error = "ValueError",
                                !.notebook_submitted = TRUE]]
                /\ UNCHANGED disk
           ELSE /\ r.existing_notebook = {} => RoomForAsset(r.tx)
                /\ disk' = disk \cup {path}
                /\ req' = [req EXCEPT ![p] =
                      IF dbError \/ (r.existing_notebook = {} /\ ForeignKeyFails(r.tx, r.entry_id))
                      THEN [r EXCEPT !.pc = "rollback", !.error = "Exception",
                                     !.notebook_submitted = TRUE,
                                     !.saved_files = Append(r.saved_files, path)]
                      ELSE IF r.existing_notebook # {}
                      THEN [next EXCEPT !.notebook_submitted = TRUE,
                                        !.saved_files = Append(r.saved_files, path),
                                        !.tx = ReplaceNotebookRow(r.tx, old.id, path, Strip(c),
                                                                  r.timestamp),
                                        !.files_to_remove_after_commit =
                                            Append(r.files_to_remove_after_commit, old.file_path)]
                      ELSE [next EXCEPT !.notebook_submitted = TRUE,
                                        !.saved_files = Append(r.saved_files, path),
                                        !.tx = InsertAsset(r.tx, r.entry_id, "notebook_page",
                                                           path, Strip(c), 0, r.timestamp)]]
    /\ UNCHANGED <<db, clock, served, forms>>

\* the delete that leaves the row in the table
DeletePhotoRowKept(t, id, entry_id) == t

\* DELETE FROM assets WHERE id = ? AND entry_id = ? AND kind = 'photo'
DeletePhotoRow(t, id, entry_id) ==
    [t EXCEPT !.assets = {a \in t.assets :
                            ~(a.id = id /\ a.entry_id = entry_id /\ a.kind = "photo")}]

\* UPDATE assets SET caption = ?, sort_index = ? WHERE id = ? AND entry_id = ? AND kind = 'photo'
KeepPhotoRow(t, id, entry_id, caption, sort_index) ==
    [t EXCEPT !.assets = {IF a.id = id /\ a.entry_id = entry_id /\ a.kind = "photo"
                          THEN [a EXCEPT !.caption = caption, !.sort_index = sort_index]
                          ELSE a : a \in t.assets}]

\* delete_photo_ids = set(request.form.getlist("existing_photo_delete")), read
\* where the loop over existing_photo_id first needs it
EditReadDeleteIds(p) ==
    /\ req[p].pc = "edit_existing"
    /\ req[p].index = 0
    /\ \E del \in SUBSET (FormAssetIds \ {"0"}) :
        req' = [req EXCEPT ![p] = [req[p] EXCEPT !.pc = "edit_loop", !.delete_photo_ids = del]]
    /\ UNCHANGED <<db, disk, clock, served, forms>>

\* One pass of the loop over existing_photo_id, or its end and the call of
\* _store_new_photos with starting_sort_index = sort_index.
EditExistingPhoto(p) ==
    /\ req[p].pc = "edit_loop"
    /\ \/ req' = [req EXCEPT ![p] =
                 [req[p] EXCEPT !.pc = "photos", !.index = 0, !.delete_photo_ids = {}]]
       \/ /\ req[p].index < forms.existing
          /\ \E raw_photo_id \in FormAssetIds, c \in forms.captions \cup {NoCaption} :
              LET r == req[p]
                  photo_id == ParseInt(raw_photo_id)
              IN req' = [req EXCEPT ![p] =
                    IF raw_photo_id \notin DOMAIN r.existing_photo_paths
                    THEN [r EXCEPT !.index = r.index + 1,
                                   !.ignored = r.ignored \cup {raw_photo_id}]
                    ELSE IF raw_photo_id \in r.delete_photo_ids
                    THEN [r EXCEPT !.index = r.index + 1,
                                   !.tx = DeletePhotoRow(r.tx, photo_id, r.entry_id),
                                   !.files_to_remove_after_commit =
                                       Append(r.files_to_remove_after_commit,
                                              r.existing_photo_paths[raw_photo_id])]
                    ELSE [r EXCEPT !.index = r.index + 1,
                                   !.tx = KeepPhotoRow(r.tx, photo_id, r.entry_id,
                                                       CaptionAt(c), r.sort_index),
                                   !.presented = Append(r.presented, photo_id),
                                   !.sort_index = r.sort_index + 1]]
    /\ UNCHANGED <<db, disk, clock, served, forms>>

\* the handler that returns without the queued deletions
RemoveAfterCommitSkipped(p) ==
    /\ req[p].pc = "post_commit"
    /\ req' = [req EXCEPT ![p] = Returned(req[p], "ok", "success")]
    /\ UNCHANGED <<db, disk, clock, served, forms>>

\* for relative_path in files_to_remove_after_commit: _delete_image(relative_path)
RemoveAfterCommit(p) ==
    /\ req[p].pc = "post_commit"
    /\ LET r == req[p] IN
       IF r.index < Len(r.files_to_remove_after_commit)
       THEN /\ disk' = DeleteImage(r.files_to_remove_after_commit[r.index + 1], disk)
            /\ req' = [req EXCEPT ![p] = [r EXCEPT !.index = r.index + 1]]
       ELSE /\ req' = [req EXCEPT ![p] = Returned(r, "ok", "success")]
            /\ UNCHANGED disk
    /\ UNCHANGED <<db, clock, served, forms>>

\* ---------------------------------------------------------- admin_delete
\* the rows of assets that reference a deleted entry go with it
\* (assets.entry_id REFERENCES entries(id) ON DELETE CASCADE, foreign_keys = ON)
OnDeleteCascade(t) ==
    [t EXCEPT !.assets = {a \in t.assets : a.entry_id \in {e.id : e \in t.entries}}]

\* a sequence of the members of a finite set of paths, in some fixed order
RECURSIVE AsList(_)
AsList(S) == IF S = {} THEN <<>>
             ELSE LET x == CHOOSE f \in S : \A g \in S : f.token <= g.token
                  IN <<x>> \o AsList(S \ {x})

\* POST /admin/delete/<entry_id>: the entry, or 404; then its assets' file paths
DeletePost(p) ==
    /\ req[p].pc = "idle"
    /\ served < MaxRequests
    /\ served' = served + 1
    /\ \E id \in FormEntryIds, t \in Now :
        /\ clock' = t
        /\ req' = [req EXCEPT ![p] =
              LET r == [Idle EXCEPT !.op = "delete", !.entry_id = id,
                                    !.pre = [db |-> db, disk |-> disk]]
              IN IF NotFound(db, id)
                 THEN [r EXCEPT !.pc = "done", !.outcome = "404"]
                 ELSE [r EXCEPT !.pc = "delete_row",
                                !.asset_rows = AsList({a.file_path : a \in
                                                 {x \in db.assets : x.entry_id = id}})]]
    /\ UNCHANGED <<db, disk, forms>>

\* the delete that removes the files before the commit
DeleteEntryRowAndFiles(p) ==
    /\ req[p].pc = "delete_row"
    /\ LET r == req[p] IN
       /\ req' = [req EXCEPT ![p] =
             [r EXCEPT !.pc = "delete_commit",
                       !.tx = [entries |-> {e \in db.entries : e.id # r.entry_id},
                               assets |-> {a \in db.assets : a.entry_id # r.entry_id}]]]
       /\ disk' = disk \ SeqRange(r.asset_rows)
    /\ UNCHANGED <<db, clock, served, forms>>

\* DELETE FROM entries WHERE id = ?
DeleteEntryRow(p) ==
    /\ req[p].pc = "delete_row"
    /\ \E busy \in Busy(p) :
       LET r == req[p] IN
       req' = [req EXCEPT ![p] =
          IF busy
          THEN [r EXCEPT !.pc = "done", !.outcome = "Exception"]
          ELSE
          [r EXCEPT !.pc = "delete_commit",
                    !.tx = OnDeleteCascade([db EXCEPT !.entries =
                                              {e \in db.entries : e.id # r.entry_id}])]]
    /\ UNCHANGED <<db, disk, clock, served, forms>>

\* connection.commit() of admin_delete; an error here leaves the handler (no
\* except clause) and the closed connection drops the transaction
DeleteCommit(p) ==
    /\ req[p].pc = "delete_commit"
    /\ \E dbError \in BOOLEAN :
        LET r == req[p] IN
        IF dbError
        THEN /\ req' = [req EXCEPT ![p] =
                   [r EXCEPT !.pc = "done", !.outcome = "Exception", !.tx = EmptyDb]]
             /\ UNCHANGED db
        ELSE /\ db' = r.tx
             /\ req' = [req EXCEPT ![p] =
                   [r EXCEPT !.pc = "delete_files", !.tx = EmptyDb, !.committed = TRUE,
                             !.index = 0]]
    /\ UNCHANGED <<disk, clock, served, forms>>

\* the loop that stops after the first file
DeleteFilesOnlyFirst(p) ==
    /\ req[p].pc = "delete_files"
    /\ LET r == req[p] IN
       /\ disk' = IF Len(r.asset_rows) > 0 THEN DeleteImage(r.asset_rows[1], disk) ELSE disk
       /\ req' = [req EXCEPT ![p] = Returned([r EXCEPT !.index = Len(r.asset_rows)], "ok", "success")]
    /\ UNCHANGED <<db, clock, served, forms>>

\* for row in asset_rows: _delete_image(row["file_path"]); then flash and redirect
DeleteFiles(p) ==
    /\ req[p].pc = "delete_files"
    /\ LET r == req[p] IN
       IF r.index < Len(r.asset_rows)
       THEN /\ disk' = DeleteImage(r.asset_rows[r.index + 1], disk)
            /\ req' = [req EXCEPT ![p] = [r EXCEPT !.index = r.index + 1]]
       ELSE /\ req' = [req EXCEPT ![p] = Returned(r, "ok", "success")]
            /\ UNCHANGED disk
    /\ UNCHANGED <<db, clock, served, forms>>

\* ------------------------------------------- commit, rollback and cleanup
\* connection.commit() of admin_new and admin_edit
Commit(p) ==
    /\ req[p].pc = "commit"
    /\ \E dbError \in BOOLEAN :
        LET r == req[p] IN
        IF dbError
        THEN /\ req' = [req EXCEPT ![p] = [r EXCEPT !.pc = "rollback", !.error = "Exception"]]
             /\ UNCHANGED db
        ELSE /\ db' = r.tx
             /\ req' = [req EXCEPT ![p] =
                   IF r.op = "new"
                   THEN Returned([r EXCEPT !.tx = EmptyDb, !.committed = TRUE], "ok", "success")
                   ELSE [r EXCEPT !.pc = "post_commit", !.tx = EmptyDb, !.committed = TRUE,
                                  !.index = 0]]
    /\ UNCHANGED <<disk, clock, served, forms>>

\* the except clause that commits what the transaction holds
RollbackCommits(p) ==
    /\ req[p].pc = "rollback"
    /\ db' = req[p].tx
    /\ req' = [req EXCEPT ![p] = [req[p] EXCEPT !.pc = "cleanup", !.tx = EmptyDb, !.index = 0]]
    /\ UNCHANGED <<disk, clock, served, forms>>

\* connection.rollback() in either except clause
Rollback(p) ==
    /\ req[p].pc = "rollback"
    /\ req' = [req EXCEPT ![p] = [req[p] EXCEPT !.pc = "cleanup", !.tx = EmptyDb, !.index = 0]]
    /\ UNCHANGED <<db, disk, clock, served, forms>>

\* the except clause without its compensating deletes
CleanupForgotten(p) ==
    /\ req[p].pc = "cleanup"
    /\ req' = [req EXCEPT ![p] = Returned(req[p], req[p].error, "error")]
    /\ UNCHANGED <<db, disk, clock, served, forms>>

\* for relative_path in saved_files: _delete_image(relative_path); then flash and return
Cleanup(p) ==
    /\ req[p].pc = "cleanup"
    /\ LET r == req[p] IN
       IF r.index < Len(r.saved_files)
       THEN /\ disk' = DeleteImage(r.saved_files[r.index + 1], disk)
            /\ req' = [req EXCEPT ![p] = [r EXCEPT !.index = r.index + 1]]
       ELSE /\ req' = [req EXCEPT ![p] = Returned(r, r.error, "error")]
            /\ UNCHANGED disk
    /\ UNCHANGED <<db, clock, served, forms>>

\* the response is sent; the request's locals are gone
Return(p) ==
    /\ req[p].pc = "done"
    /\ req' = [req EXCEPT ![p] = Idle]
    /\ UNCHANGED <<db, disk, clock, served, forms>>

\* ------------------------------------------------------------ the reads
\* "YYYY-MM-DD" strings compare as the dates they name
DateKey(entry_date) ==
    Strptime(entry_date).year * 10000 + Strptime(entry_date).month * 100
        + Strptime(entry_date).day

\* ORDER BY entry_date DESC, id DESC
RECURSIVE OrderByDateDescIdDesc(_)
OrderByDateDescIdDesc(S) ==
    IF S = {} THEN <<>>
    ELSE LET first == CHOOSE e \in S : \A g \in S :
                          \/ DateKey(e.entry_date) > DateKey(g.entry_date)
                          \/ DateKey(e.entry_date) = DateKey(g.entry_date) /\ e.id >= g.id
         IN <<first>> \o OrderByDateDescIdDesc(S \ {first})

\* LIMIT ? OFFSET ?
LimitOffset(rows, limit, offset) ==
    SubSeq(rows, offset + 1, IF offset + limit < Len(rows) THEN offset + limit ELSE Len(rows))

\* the page count rounded down
FetchEntriesFloor(d, page, per_page) ==
    LET total_entries == Cardinality(d.entries)
        total_pages == total_entries \div per_page
        safe_page == IF page < total_pages THEN (IF page > 1 THEN page ELSE 1)
                     ELSE (IF total_pages > 1 THEN total_pages ELSE 1)
    IN IF total_entries = 0 THEN [entries |-> <<>>, total_pages |-> 0]
       ELSE [entries |-> LimitOffset(OrderByDateDescIdDesc(d.entries), per_page,
                                     (safe_page - 1) * per_page),
             total_pages |-> total_pages]

\* _fetch_entries(page, per_page): the rows of the page and the page count
FetchEntries(d, page, per_page) ==
    LET total_entries == Cardinality(d.entries)
        total_pages == (total_entries + per_page - 1) \div per_page
        \* max(1, min(page, total_pages))
        safe_page == IF page < total_pages THEN (IF page > 1 THEN page ELSE 1)
                     ELSE (IF total_pages > 1 THEN total_pages ELSE 1)
    IN IF total_entries = 0 THEN [entries |-> <<>>, total_pages |-> 0]
       ELSE [entries |-> LimitOffset(OrderByDateDescIdDesc(d.entries), per_page,
                                     (safe_page - 1) * per_page),
             total_pages |-> total_pages]

\* the page numbers and page sizes a listing is asked for
Pages == (-1..MaxPage) \cup {99}

PerPages == {1, 2, 7, 20}

\* a call of _fetch_entries(page, per_page)
FetchEntriesCall(p) ==
    /\ req[p].pc = "idle"
    /\ \E page \in Pages, per_page \in PerPages :
        req' = [req EXCEPT ![p] =
           [Idle EXCEPT !.pc = "done", !.op = "list", !.outcome = "ok",
                        !.page = page, !.per_page = per_page,
                        !.entries = FetchEntries(db, page, per_page).entries,
                        !.total_pages = FetchEntries(db, page, per_page).total_pages,
                        !.pre = [db |-> db, disk |-> disk]]]
    /\ UNCHANGED <<db, disk, clock, served, forms>>

\* GET /?page=n: index() lists 20 entries a page and corrects the page it shows
Index(p) ==
    /\ req[p].pc = "idle"
    /\ \E requested_page \in Pages :
        LET page == IF requested_page # 0 /\ requested_page > 0 THEN requested_page ELSE 1
            first == FetchEntries(db, page, 20)
            shown == IF first.total_pages > 0 /\ page > first.total_pages
                     THEN first.total_pages ELSE page
            last == IF first.total_pages > 0 /\ page > first.total_pages
                    THEN FetchEntries(db, shown, 20) ELSE first
        IN req' = [req EXCEPT ![p] =
              [Idle EXCEPT !.pc = "done", !.op = "index", !.outcome = "ok",
                           !.page = shown, !.per_page = 20,
                           !.entries = last.entries, !.total_pages = last.total_pages,
                           !.pre = [db |-> db, disk |-> disk]]]
    /\ UNCHANGED <<db, disk, clock, served, forms>>

\* the row a LEFT JOIN pairs with an entry that has no asset
NullAsset == [id |-> 0, entry_id |-> 0, kind |-> "NULL"]

\* the join that keeps only the entries that have assets
InnerJoin(d) ==
    {j \in {[e |-> e, a |-> a] : e \in d.entries, a \in d.assets} : j.a.entry_id = j.e.id}

\* FROM entries AS e LEFT JOIN assets AS a ON a.entry_id = e.id
LeftJoin(d) ==
    {j \in {[e |-> e, a |-> a] : e \in d.entries, a \in d.assets} : j.a.entry_id = j.e.id}
    \cup {[e |-> e, a |-> NullAsset] : e \in {x \in d.entries :
                                              \A a \in d.assets : a.entry_id # x.id}}

\* SUM(CASE WHEN a.kind = 'photo' THEN 1 ELSE 0 END) over the rows of a group
RECURSIVE SumPhoto(_)
SumPhoto(group) ==
    IF group = {} THEN 0
    ELSE LET j == CHOOSE x \in group : TRUE
         IN (IF j.a.kind = "photo" THEN 1 ELSE 0) + SumPhoto(group \ {j})

\* MAX(CASE WHEN a.kind = 'notebook_page' THEN 1 ELSE 0 END) over the rows of a group
RECURSIVE MaxNotebook(_)
MaxNotebook(group) ==
    IF group = {} THEN 0
    ELSE LET j == CHOOSE x \in group : TRUE
             rest == MaxNotebook(group \ {j})
             one == IF j.a.kind = "notebook_page" THEN 1 ELSE 0
         IN IF one > rest THEN one ELSE rest

\* _fetch_dashboard_rows(): GROUP BY e.id, one row of sums for each group
FetchDashboardRows(d) ==
    LET joined == LeftJoin(d)
        grouped == {[id |-> e.id, entry_date |-> e.entry_date, title |-> e.title,
                     updated_at |-> e.updated_at,
                     photo_count |-> SumPhoto({j \in joined : j.e.id = e.id}),
                     has_notebook |-> MaxNotebook({j \in joined : j.e.id = e.id})]
                    : e \in {j.e : j \in joined}}
    IN OrderByDateDescIdDesc(grouped)

\* GET /admin: the dashboard lists _fetch_dashboard_rows()
AdminDashboard(p) ==
    /\ req[p].pc = "idle"
    /\ req' = [req EXCEPT ![p] =
          [Idle EXCEPT !.pc = "done", !.op = "dashboard", !.outcome = "ok",
                       !.rows = FetchDashboardRows(db),
                       !.pre = [db |-> db, disk |-> disk]]]
    /\ UNCHANGED <<db, disk, clock, served, forms>>

\* the steps of admin_new
NewStep(p) ==
    \/ NewPost(p)
    \/ NewInsertEntry(p)
    \/ NewNotebook(p)

\* the steps of admin_edit
EditStep(p) ==
    \/ EditPost(p)
    \/ EditUpdateEntry(p)
    \/ EditNotebook(p)
    \/ EditReadDeleteIds(p)
    \/ EditExistingPhoto(p)
    \/ RemoveAfterCommit(p)

\* the steps of admin_delete
DeleteStep(p) ==
    \/ DeletePost(p)
    \/ DeleteEntryRow(p)
    \/ DeleteCommit(p)
    \/ DeleteFiles(p)

\* the steps admin_new and admin_edit share, and the end of every request
SharedStep(p) ==
    \/ StoreNewPhotos(p)
    \/ Commit(p)
    \/ Rollback(p)
    \/ Cleanup(p)
    \/ Return(p)

\* one step of the handler that request p runs
Step(p) == NewStep(p) \/ EditStep(p) \/ DeleteStep(p) \/ SharedStep(p) \/ AdminDashboard(p)

\* requests served one at a time, on a file system that does not fail
Next == \E p \in SeqProcs : Step(p)

Spec == Init /\ [][Next]_vars

\* ------------------------------------------------ file system failures
\* Path.unlink() raises OSError (permission denied, read-only file system) in
\* the loop after admin_edit's commit: nothing catches it, so it leaves the
\* handler; the rest of the loop and the success flash are not reached.
RemoveAfterCommitRaises(p) ==
    /\ req[p].pc = "post_commit"
    /\ LET r == req[p] IN
       /\ r.index < Len(r.files_to_remove_after_commit)
       /\ r.files_to_remove_after_commit[r.index + 1] # EmptyPath
       /\ r.files_to_remove_after_commit[r.index + 1] \in disk
       /\ req' = [req EXCEPT ![p] = [r EXCEPT !.pc = "done", !.outcome = "OSError"]]
    /\ UNCHANGED <<db, disk, clock, served, forms>>

\* the same in the loop after admin_delete's commit
DeleteFilesRaises(p) ==
    /\ req[p].pc = "delete_files"
    /\ LET r == req[p] IN
       /\ r.index < Len(r.asset_rows)
       /\ r.asset_rows[r.index + 1] # EmptyPath
       /\ r.asset_rows[r.index + 1] \in disk
       /\ req' = [req EXCEPT ![p] = [r EXCEPT !.pc = "done", !.outcome = "OSError"]]
    /\ UNCHANGED <<db, disk, clock, served, forms>>

\* requests served one at a time, on a file system where unlink may fail
FaultNext == \E p \in SeqProcs : Step(p) \/ RemoveAfterCommitRaises(p) \/ DeleteFilesRaises(p)

FaultSpec == Init /\ [][FaultNext]_vars

\* ------------------------------------------------- a store with entries
\* the rows and the file admin_new leaves for one submitted image
StoredAsset(id, entry_id, kind, role, sort_index) ==
    [id |-> id, entry_id |-> entry_id, kind |-> kind,
     file_path |-> SavedPath("my photo.JPG", "2024-03-05", role, id),
     caption |-> "", sort_index |-> sort_index, created_at |-> 0]

StoredEntry(id) ==
    [id |-> id, entry_date |-> "2024-03-05", title |-> "run 7",
     created_at |-> 0, updated_at |-> 0]

\* Stores that creates have left behind: entry 1 with a notebook page and a
\* photo next to entry 2 with a photo; and entry 1 with one photo only.
Stores ==
    {[entries |-> {StoredEntry(1), StoredEntry(2)},
      assets |-> {StoredAsset(1, 1, "notebook_page", "notebook", 0),
                  StoredAsset(2, 1, "photo", "photo", 0),
                  StoredAsset(3, 2, "photo", "photo", 0)}],
     [entries |-> {StoredEntry(1)},
      assets |-> {StoredAsset(1, 1, "photo", "photo", 0)}]}

StoredInit == /\ db \in Stores
              /\ disk = {a.file_path : a \in db.assets}
              /\ clock = MaxClock
              /\ served = 0
              /\ forms = AnyForm
              /\ req = [p \in Procs |-> Idle]

\* updates and deletes of stored entries, one request at a time
StoredNext == \E p \in SeqProcs : EditStep(p) \/ DeleteStep(p) \/ SharedStep(p)

StoredSpec == StoredInit /\ [][StoredNext]_vars

\* ------------------------------------------------- two requests at once
\* updates and deletes of stored entries by two requests whose steps interleave
\* entry 1 with one photo, and entry 1 with a notebook page and a photo
ConcStores ==
    {[entries |-> {StoredEntry(1)},
      assets |-> {StoredAsset(1, 1, "photo", "photo", 0)}],
     [entries |-> {StoredEntry(1)},
      assets |-> {StoredAsset(1, 1, "notebook_page", "notebook", 0),
                  StoredAsset(2, 1, "photo", "photo", 0)}]}

ConcInit == /\ db \in ConcStores
            /\ disk = {a.file_path : a \in db.assets}
            /\ clock = MaxClock
            /\ served = 0
            /\ forms = PlainForm
            /\ req = [p \in Procs |-> Idle]

ConcNext == \E p \in Procs : EditStep(p) \/ DeleteStep(p) \/ SharedStep(p)

ConcSpec == ConcInit /\ [][ConcNext]_vars

\* ------------------------------------------------- stores to page through
PageEntry(id) ==
    [id |-> id, entry_date |-> IF id % 3 = 0 THEN "2024-06-01" ELSE "2024-03-05",
     title |-> "run 7", created_at |-> 0, updated_at |-> 0]

\* a store of n entries without images
PageStore(n) == [entries |-> {PageEntry(id) : id \in 1..n}, assets |-> {}]

PageInit == /\ db \in {PageStore(n) : n \in 0..MaxTotal}
            /\ disk = {}
            /\ clock = 0
            /\ served = 0
            /\ forms = AnyForm
            /\ req = [p \in Procs |-> Idle]

\* listings of a store, one request at a time
PageNext == \E p \in SeqProcs : FetchEntriesCall(p) \/ Index(p) \/ Return(p)

PageSpec == PageInit /\ [][PageNext]_vars

\* ------------------------------------------------ the upload directory
\* three paths as _save_uploaded_image makes them
ImagePaths == {SavedPath("my photo.JPG", "2024-03-05", "photo", token) : token \in 1..3}

\* a call _delete_image(relative_path); req[p].calls lists the paths so far
DeleteImageCall(p) ==
    /\ req[p].pc = "idle"
    /\ Len(req[p].calls) < MaxCalls
    /\ \E relative_path \in ImagePaths \cup {EmptyPath} :
        /\ disk' = DeleteImageOutcome(relative_path, disk).files
        /\ req' = [req EXCEPT ![p] =
              [req[p] EXCEPT !.op = "delete_image",
                             !.calls = Append(req[p].calls, relative_path),
                             !.raised = DeleteImageOutcome(relative_path, disk).raised,
                             !.pre = [db |-> db, disk |-> disk]]]
    /\ UNCHANGED <<db, clock, served, forms>>

\* an upload directory that holds any of the files
ImageInit == /\ db = EmptyDb
             /\ disk \in SUBSET ImagePaths
             /\ clock = 0
             /\ served = 0
             /\ forms = AnyForm
             /\ req = [p \in Procs |-> Idle]

ImageNext == \E p \in SeqProcs : DeleteImageCall(p)

ImageSpec == ImageInit /\ [][ImageNext]_vars

\* ------------------------------------------------------- claims: helpers
Failed(r) == r.pc = "done" /\ r.outcome \in {"ValueError", "Exception"}

Succeeded(r) == r.pc = "done" /\ r.outcome = "ok"

AssetsOf(d, entry_id) == {a \in d.assets : a.entry_id = entry_id}

PhotosOf(d, entry_id) == {a \in AssetsOf(d, entry_id) : a.kind = "photo"}

NotebooksOf(d, entry_id) == {a \in AssetsOf(d, entry_id) : a.kind = "notebook_page"}

\* the sort_index values of the photos are 0..n-1, each once
Dense(photos) ==
    /\ {a.sort_index : a \in photos} = 0..(Cardinality(photos) - 1)
    /\ \A a, b \in photos : a.sort_index = b.sort_index => a = b

\* the photo that was presented k-th carries sort_index k-1
InPresentedOrder(r, photos) ==
    /\ Len(r.presented) = Cardinality(photos)
    /\ \A k \in 1..Len(r.presented) :
          \E a \in photos : a.id = r.presented[k] /\ a.sort_index = k - 1

\* C1: when a create has failed with a validation or an unexpected error, the
\* database holds what it held before the attempt (no entry row, no asset row
\* of the attempt), and no file the attempt saved is on disk.
C1_CreateFailureRollsBack ==
    \A p \in Procs :
        (req[p].op = "new" /\ Failed(req[p])) =>
            /\ db = req[p].pre.db
            /\ SeqRange(req[p].saved_files) \cap disk = {}
            /\ disk = req[p].pre.disk

\* a create failed after it had saved a valid image
C1_Witness ==
    \E p \in Procs : /\ req[p].op = "new" /\ Failed(req[p])
                     /\ req[p].outcome = "ValueError"
                     /\ Len(req[p].saved_files) >= 1

\* C2: when an update has failed with a validation or an unexpected error,
\* the entry row and all asset rows are those from before the attempt, every
\* file that was on disk before is still there, and no file the attempt saved
\* is on disk.
C2_UpdateFailureKeepsPriorState ==
    \A p \in Procs :
        (req[p].op = "edit" /\ Failed(req[p])) =>
            /\ db = req[p].pre.db
            /\ req[p].pre.disk \subseteq disk
            /\ SeqRange(req[p].saved_files) \cap disk = {}

\* an update failed after it had replaced the notebook image and queued the old file
C2_Witness ==
    \E p \in Procs : /\ req[p].op = "edit" /\ Failed(req[p])
                     /\ Len(req[p].saved_files) >= 1
                     /\ Len(req[p].files_to_remove_after_commit) >= 1

\* C3: in an update or a delete, a step that removes a file that was on disk
\* when the workflow began is taken after the workflow's commit; so a workflow
\* that rolls back or aborts removes none of them.
C3_CommitBeforeDeletion ==
    [][\A p \in Procs :
          req[p].op \in {"edit", "delete"} =>
              \A f \in req[p].pre.disk : (f \in disk /\ f \notin disk') => req[p].committed]_vars

\* an update or delete has removed a file that was there before it began
C3_Witness ==
    \E p \in Procs : /\ req[p].op \in {"edit", "delete"}
                     /\ req[p].committed
                     /\ req[p].pre.disk \ disk # {}

\* C4: when no workflow is running, the files on disk are exactly the
\* file_path values of the committed asset rows.
C4_RowsAndFilesAgreeAtRest ==
    (\A p \in Procs : req[p].pc \in {"idle", "done"}) =>
        disk = {a.file_path : a \in db.assets}

\* an update has returned after saving a new file and removing an old one
C4_Witness ==
    \E p \in Procs : /\ req[p].op = "edit" /\ Succeeded(req[p])
                     /\ Len(req[p].saved_files) >= 1
                     /\ Len(req[p].files_to_remove_after_commit) >= 1
                     /\ disk # {}

\* C5: every committed entry has at most one notebook_page asset row.
C5_AtMostOneNotebook ==
    \A e \in db.entries : Cardinality(NotebooksOf(db, e.id)) <= 1

\* an update that submitted a notebook image for an entry that had one has returned
C5_Witness ==
    \E p \in Procs : /\ req[p].op = "edit" /\ Succeeded(req[p])
                     /\ req[p].notebook_submitted
                     /\ req[p].existing_notebook # {}
                     /\ Cardinality(NotebooksOf(db, req[p].entry_id)) = 1

\* the photos that were presented keep their relative order
PresentedOrderKept(r, photos) ==
    \A j, k \in 1..Len(r.presented) :
        (j < k /\ r.presented[j] # r.presented[k]) =>
            \A a, b \in photos :
                (a.id = r.presented[j] /\ b.id = r.presented[k]) => a.sort_index < b.sort_index

\* C6 (as claimed): after every successful update, whatever existing_photo_id
\* list was submitted (one that omits photos of the entry or repeats an id
\* included), the sort_index values of the entry's remaining photos are
\* exactly 0..n-1, each once, in the order presented, new photos after the
\* kept ones.
C6_DenseAfterUpdate ==
    \A p \in Procs :
        (req[p].op = "edit" /\ Succeeded(req[p])) =>
            /\ Dense(PhotosOf(db, req[p].entry_id))
            /\ PresentedOrderKept(req[p], PhotosOf(db, req[p].entry_id))

\* C7: after a successful create the entry has as many photo rows as photo
\* files with a non-empty filename were submitted, with sort_index 0..n-1 in
\* submission order; a file without a filename takes no index.
C7_CreatePhotosDense ==
    \A p \in Procs :
        (req[p].op = "new" /\ Succeeded(req[p])) =>
            /\ Cardinality(PhotosOf(db, req[p].entry_id)) = req[p].named
            /\ Dense(PhotosOf(db, req[p].entry_id))
            /\ InPresentedOrder(req[p], PhotosOf(db, req[p].entry_id))

\* a create with a named photo and a file without filename has succeeded
C7_Witness ==
    \E p \in Procs : /\ req[p].op = "new" /\ Succeeded(req[p])
                     /\ req[p].named = 1
                     /\ req[p].index = 2

\* C8: a successful update that submitted a replacement for an existing
\* notebook asset leaves one notebook_page row, with the old id and the new
\* file's path; the new file is on disk and the old one is not.
C8_NotebookReplaced ==
    \A p \in Procs :
        (/\ req[p].op = "edit" /\ Succeeded(req[p])
         /\ req[p].notebook_submitted /\ req[p].existing_notebook # {}) =>
            \A old \in req[p].existing_notebook :
                /\ NotebooksOf(db, req[p].entry_id) # {}
                /\ \A n \in NotebooksOf(db, req[p].entry_id) :
                      /\ n.id = old.id
                      /\ n.file_path = req[p].saved_files[1]
                      /\ n.file_path # old.file_path
                      /\ n.file_path \in disk
                /\ old.file_path \notin disk

\* such an update has returned
C8_Witness ==
    \E p \in Procs : /\ req[p].op = "edit" /\ Succeeded(req[p])
                     /\ req[p].notebook_submitted
                     /\ req[p].existing_notebook # {}

\* C9 (as claimed): a create with a malformed entry_date fails, and persists
\* no entry row, no asset row and no file.
C9_CreateBadDateFails ==
    \A p \in Procs :
        (req[p].op = "new" /\ req[p].pc = "done" /\ ~req[p].date_ok) =>
            /\ req[p].outcome # "ok"
            /\ db = req[p].pre.db
            /\ disk = req[p].pre.disk

Queued(r) == IF r.op = "delete" THEN r.asset_rows ELSE r.files_to_remove_after_commit

\* C11 (as claimed): when a file deletion after the commit of an update or a
\* delete fails, the operation still reports success, the other queued files
\* are still deleted, and the committed rows are as the commit left them (no
\* row references a queued file).
C11_PostCommitFailureSwallowed ==
    \A p \in Procs :
        (req[p].op \in {"edit", "delete"} /\ req[p].committed /\ req[p].pc = "done") =>
            /\ req[p].outcome = "ok"
            /\ \A k \in 1..Len(Queued(req[p])) :
                  (Queued(req[p])[k] \in disk) => (k = req[p].index + 1)
            /\ \A k \in 1..Len(Queued(req[p])) :
                  Queued(req[p])[k] \notin {a.file_path : a \in db.assets}

\* C12: after a successful delete of an existing entry its row is gone, no
\* asset row carries its id, and every file one of its asset rows referenced
\* is off the disk; the rows and files of every other entry are as before.
C12_DeleteCascades ==
    \A p \in Procs :
        (req[p].op = "delete" /\ Succeeded(req[p])) =>
            LET id == req[p].entry_id
                was == req[p].pre
                owned == AssetsOf(was.db, id)
            IN /\ id \notin {e.id : e \in db.entries}
               /\ AssetsOf(db, id) = {}
               /\ \A a \in owned : a.file_path \notin disk
               /\ db.entries = {e \in was.db.entries : e.id # id}
               /\ db.assets = was.db.assets \ owned
               /\ disk = was.disk \ {a.file_path : a \in owned}

\* an entry with two assets was deleted while another entry with a photo stays
C12_Witness ==
    \E p \in Procs : /\ req[p].op = "delete" /\ Succeeded(req[p])
                     /\ Cardinality(AssetsOf(req[p].pre.db, req[p].entry_id)) = 2
                     /\ db.assets # {}
                     /\ disk # {}

\* C13: an update or a delete of an entry id that no row carries ends with
\* not-found before any write: no transaction, no saved file, and the rows
\* and files are those from before the request.
C13_NotFoundBeforeAnyWrite ==
    \A p \in Procs :
        (/\ req[p].op \in {"edit", "delete"}
         /\ req[p].entry_id \notin {e.id : e \in req[p].pre.db.entries}) =>
            /\ req[p].pc = "done"
            /\ req[p].outcome = "404"
            /\ ~req[p].committed
            /\ req[p].tx = EmptyDb
            /\ req[p].saved_files = <<>>
            /\ db = req[p].pre.db
            /\ disk = req[p].pre.disk

\* a delete named no entry of a store that holds assets
C13_Witness ==
    \E p \in Procs : /\ req[p].op = "delete"
                     /\ req[p].outcome = "404"
                     /\ db.assets # {}

\* the least n with n * b >= a
CeilDiv(a, b) == CHOOSE n \in 0..a : n * b >= a /\ (n - 1) * b < a

\* the page number brought into 1..total_pages
Clamped(page, total_pages) ==
    IF page < 1 THEN 1 ELSE IF page > total_pages THEN total_pages ELSE page

\* C14: for a store of total > 0 entries, any per_page >= 1 and any requested
\* page, _fetch_entries returns total_pages = ceil(total / per_page) and the
\* rows of the page clamped into 1..total_pages, which number
\* min(per_page, total - (clamped - 1) * per_page); for an empty store it
\* returns no rows and total_pages = 0.
C14_Pagination ==
    \A p \in Procs :
        (req[p].op = "list" /\ req[p].pc = "done") =>
            LET total == Cardinality(db.entries)
                per_page == req[p].per_page
                clamped == Clamped(req[p].page, CeilDiv(total, per_page))
                left == total - (clamped - 1) * per_page
            IN IF total = 0
               THEN req[p].entries = <<>> /\ req[p].total_pages = 0
               ELSE /\ req[p].total_pages = CeilDiv(total, per_page)
                    /\ clamped \in 1..req[p].total_pages
                    /\ Len(req[p].entries) = (IF per_page < left THEN per_page ELSE left)
                    /\ req[p].entries = FetchEntries(db, clamped, per_page).entries
                    /\ \A j, k \in 1..Len(req[p].entries) :
                          j # k => req[p].entries[j].id # req[p].entries[k].id

\* 45 entries, 20 a page: page 99 gives the 5 rows of page 3
C14_Witness ==
    \E p \in Procs : /\ req[p].op = "list" /\ req[p].pc = "done"
                     /\ Cardinality(db.entries) = 45
                     /\ req[p].per_page = 20 /\ req[p].page = 99
                     /\ req[p].total_pages = 3
                     /\ Len(req[p].entries) = 5

\* C15: whatever workflows have run, the dashboard holds one row for each
\* entry, also for an entry without assets; its photo_count is the number of
\* the entry's photo rows and its has_notebook is 1 exactly when the entry
\* has a notebook_page row.
C15_DashboardAggregation ==
    \A p \in Procs :
        (req[p].op = "dashboard" /\ req[p].pc = "done") =>
            LET rows == req[p].rows IN
            /\ \A e \in db.entries :
                  Cardinality({k \in 1..Len(rows) : rows[k].id = e.id}) = 1
            /\ \A k \in 1..Len(rows) :
                  /\ rows[k].id \in {e.id : e \in db.entries}
                  /\ rows[k].photo_count = Cardinality(PhotosOf(db, rows[k].id))
                  /\ rows[k].has_notebook \in {0, 1}
                  /\ (rows[k].has_notebook = 1) <=> (NotebooksOf(db, rows[k].id) # {})

\* the dashboard of an entry with a notebook page and two photos next to an
\* entry without assets
C15_Witness ==
    \E p \in Procs :
        /\ req[p].op = "dashboard" /\ req[p].pc = "done"
        /\ Len(req[p].rows) = 2
        /\ \E j, k \in 1..2 : /\ req[p].rows[j].photo_count = 2
                             /\ req[p].rows[j].has_notebook = 1
                             /\ req[p].rows[k].photo_count = 0
                             /\ req[p].rows[k].has_notebook = 0

\* C16: a call of _delete_image never raises; on the empty path, on a path
\* that was never there and on a path that is already deleted it changes
\* nothing; on a file it removes just that file, so that a second call on the
\* same path leaves what the first call left.
C16_DeleteImageIdempotent ==
    \A p \in Procs :
        (req[p].op = "delete_image" /\ Len(req[p].calls) >= 1) =>
            LET path == req[p].calls[Len(req[p].calls)]
                before == req[p].pre.disk
            IN /\ ~req[p].raised
               /\ (path = EmptyPath \/ path \notin before) => disk = before
               /\ path \in before => disk = before \ {path}
               /\ path \notin disk

\* the second of two calls in a row on a file that was there
C16_Witness ==
    \E p \in Procs :
        /\ req[p].op = "delete_image" /\ Len(req[p].calls) = 3
        /\ req[p].calls[2] = req[p].calls[3]
        /\ req[p].calls[3] # EmptyPath
        /\ req[p].calls[1] = EmptyPath
        /\ req[p].calls[3] \notin req[p].pre.disk
        /\ disk # {}

\* C17: in every state, also between the steps of two requests that update
\* or delete the same entry at once, each committed asset row references a
\* file that is on disk, and so does each row a running transaction has
\* written: a file is saved before the row that references it is written, and
\* it is removed only when no committed row references it any more.
C17_NoDanglingRows ==
    /\ \A a \in db.assets : a.file_path \in disk
    /\ \A p \in Procs : \A a \in req[p].tx.assets : a.file_path \in disk

\* an update that saved an image and a delete of the same entry, each begun
\* before the other committed, have both committed
C17_Witness ==
    \E p, q \in Procs :
        /\ req[p].op = "edit" /\ req[q].op = "delete"
        /\ req[p].entry_id = req[q].entry_id
        /\ req[p].pre.db = req[q].pre.db
        /\ req[p].committed /\ req[q].committed
        /\ Len(req[p].saved_files) >= 1
        /\ Len(req[p].files_to_remove_after_commit) >= 1

\* C20 (as claimed): when two updates of an entry without a notebook asset
\* each submit a notebook image, and each has read the existing notebook
\* asset before the other commits, the entry has at most one notebook_page
\* row once both have completed.
C20_OneNotebookUnderConcurrentUpdates ==
    \A p, q \in Procs :
        (/\ p # q
         /\ req[p].op = "edit" /\ req[q].op = "edit"
         /\ req[p].entry_id = req[q].entry_id
         /\ req[p].pre.db = req[q].pre.db
         /\ NotebooksOf(req[p].pre.db, req[p].entry_id) = {}
         /\ req[p].notebook_submitted /\ req[q].notebook_submitted
         /\ req[p].pc = "done" /\ req[q].pc = "done") =>
            Cardinality(NotebooksOf(db, req[p].entry_id)) <= 1

\* C18: a successful update that submits no notebook image leaves the entry's
\* notebook asset as it was but for the caption: same id, file_path,
\* sort_index and created_at, and its file still on disk; for an entry
\* without a notebook asset it creates none.
C18_CaptionOnlyNotebookUpdate ==
    \A p \in Procs :
        (req[p].op = "edit" /\ Succeeded(req[p]) /\ ~req[p].notebook_submitted) =>
            LET was == NotebooksOf(req[p].pre.db, req[p].entry_id)
                now == NotebooksOf(db, req[p].entry_id)
            IN /\ was = {} => now = {}
               /\ Cardinality(now) = Cardinality(was)
               /\ \A n \in was : \E m \in now :
                     /\ m.id = n.id
                     /\ m.file_path = n.file_path
                     /\ m.sort_index = n.sort_index
                     /\ m.created_at = n.created_at
                     /\ m.file_path \in disk

\* such an update, at a later second, has changed the caption of the notebook asset
C18_Witness ==
    \E p \in Procs :
        /\ req[p].op = "edit" /\ Succeeded(req[p]) /\ ~req[p].notebook_submitted
        /\ \E n \in NotebooksOf(req[p].pre.db, req[p].entry_id) :
              \E m \in NotebooksOf(db, req[p].entry_id) :
                  /\ m.id = n.id /\ m.caption # n.caption
                  /\ req[p].timestamp # n.created_at

\* the asset rows of the entries other than entry_id
OthersAssets(d, entry_id) == {a \in d.assets : a.entry_id # entry_id}

\* C19: at every step of an update of entry E the asset rows of the other
\* entries are as before, in the store and in the transaction, and their
\* files are on disk, whatever ids existing_photo_id and
\* existing_photo_delete name; an id that is not a photo of E (an asset of
\* another entry, E's notebook asset) is skipped: it takes no sort_index and
\* E's notebook row stays.
C19_UpdateTouchesOwnPhotosOnly ==
    \A p \in Procs :
        req[p].op = "edit" =>
            LET id == req[p].entry_id
                was == req[p].pre.db
            IN /\ OthersAssets(db, id) = OthersAssets(was, id)
               /\ req[p].tx # EmptyDb => OthersAssets(req[p].tx, id) = OthersAssets(was, id)
               /\ \A a \in OthersAssets(was, id) : a.file_path \in disk
               /\ \A n \in NotebooksOf(was, id) :
                     /\ \E m \in NotebooksOf(db, id) : m.id = n.id
                     /\ req[p].tx # EmptyDb =>
                           \E m \in NotebooksOf(req[p].tx, id) :
                               m.id = n.id /\ m.sort_index = n.sort_index
               /\ req[p].pc = "edit_loop" =>
                     /\ req[p].sort_index = Len(req[p].presented)
                     /\ \A k \in 1..Len(req[p].presented) :
                           req[p].presented[k] \in {a.id : a \in PhotosOf(was, id)}
                     /\ \A s \in req[p].ignored :
                           s \notin {IntToStr(a.id) : a \in PhotosOf(was, id)}

\* the loop has passed the id of the entry's notebook asset and the id of
\* another entry's photo, both also marked for deletion
C19_Witness ==
    \E p \in Procs :
        /\ req[p].op = "edit" /\ req[p].pc = "edit_loop"
        /\ \E n \in NotebooksOf(req[p].pre.db, req[p].entry_id) :
              /\ IntToStr(n.id) \in req[p].ignored
              /\ IntToStr(n.id) \in req[p].delete_photo_ids
        /\ \E a \in OthersAssets(req[p].pre.db, req[p].entry_id) :
              /\ a.kind = "photo"
              /\ IntToStr(a.id) \in req[p].ignored
              /\ IntToStr(a.id) \in req[p].delete_photo_ids

\* C21 (as claimed): when a delete of entry E and an update of E that saves
\* an image, or two updates of E that both replace its notebook image, run
\* at once (each begun before the other committed), then once both have
\* completed every file on disk is referenced by a committed asset row.
C21_NoOrphanUnderConcurrency ==
    \A p, q \in Procs :
        (/\ p # q
         /\ req[p].op = "edit" /\ req[q].op \in {"edit", "delete"}
         /\ req[p].entry_id = req[q].entry_id
         /\ req[p].pre.db = req[q].pre.db
         /\ req[p].pc = "done" /\ req[q].pc = "done"
         /\ \/ req[q].op = "delete" /\ Len(req[p].saved_files) >= 1
            \/ /\ req[q].op = "edit"
               /\ req[p].notebook_submitted /\ req[p].existing_notebook # {}
               /\ req[q].notebook_submitted /\ req[q].existing_notebook # {}) =>
            disk \subseteq {a.file_path : a \in db.assets}

====
